---- MODULE Spec2Model ----
(***************************************************************************)
(* PlexEventSource: the SSE client of                                      *)
(* apps/server/src/services/mediaServer/plex/eventSource.ts.               *)
(*                                                                         *)
(* One client instance is modelled together with its environment: the     *)
(* module-level EventSourceClass (the lazily imported transport class),    *)
(* the transports the client has constructed, the Node timers it holds    *)
(* and the callers of connect() / disconnect().  JavaScript runs every    *)
(* handler to completion, so each action is one whole handler: an         *)
(* external call, the continuation of a connect() suspended on the lazy   *)
(* import, a transport callback or a timer callback.  EventEmitter.emit    *)
(* calls the subscribers synchronously, inside the handler that emits:    *)
(* a subscriber may read getStatus() there, and in SpecReentrant it may   *)
(* call disconnect() there.                                               *)
(*                                                                         *)
(* Time is discrete.  A timer handle records the ticks left until it is   *)
(* due; Tick lets one tick pass and is disabled while a timer is due.     *)
(* Dates (connectedAt, lastEventTime) are kept as ages in ticks.          *)
(***************************************************************************)
EXTENDS Integers, Sequences, FiniteSets, TLC

(***************************************************************************)
(* SSE_CONFIG is imported from @tracearr/shared (eventSource.ts:17-22);    *)
(* the file that sets its values is not among the sources, and the client *)
(* only reads them.  They are parameters of the model, in ticks, with     *)
(* small values.  JitterTicks is the width of the jitter interval         *)
(* Math.random() * 1000 (eventSource.ts:371) on the same scale.           *)
(***************************************************************************)
MAX_RETRIES == 3
INITIAL_RETRY_DELAY_MS == 1
RETRY_MULTIPLIER == 2
MAX_RETRY_DELAY_MS == 2
HEARTBEAT_TIMEOUT_MS == 3
JitterTicks == 2

\* Bounds of the model.
MaxTransports == 2
MaxPending == 2
MaxAge == 1
MaxArmed == 3

VARIABLES
    this,              \* the PlexEventSource instance's fields
    EventSourceClass,  \* module level: TRUE once the eventsource package is loaded
    transports,        \* the EventSource objects constructed by the client
    pendingConnects,   \* connect() calls suspended on `await import('eventsource')`
    urlValid,          \* whether the immutable descriptor yields a constructible transport
    emitted,           \* events emitted by the last handler, in order
    last,              \* what the last handler was and what it did
    failures,          \* error-path passes since the last successful open (capped)
    sinceRecv,         \* while connected: ticks since the last received event, or since open
    resetFrom,         \* the attempt counter just before the last open, kept until the
                       \* step after the first failure that follows it (-1: none)
    announced,         \* the state carried by the latest connection:state event
    scheduled,         \* the reconnect timer as last scheduled since the last open
    leakedTimers,      \* TRUE once a handle was overwritten while its timer was pending
    cancelled,         \* disconnect() has returned and connect() was not called since
    retries,           \* reconnect timer callbacks run since the last external call or open
    observed,          \* getStatus() as read by a subscriber at each connection:state
                       \* event of the last handler
    armed              \* k > 0: a subscriber will call disconnect() when it is delivered
                       \* the k-th connection event of the next handler; -1: it has
                       \* done so and was removed (a once() listener)

vars == <<this, EventSourceClass, transports, pendingConnects, urlValid,
          emitted, last, failures, sinceRecv, resetFrom,
          announced, scheduled, leakedTimers, cancelled, retries, observed, armed>>

States == {"disconnected", "connecting", "connected", "reconnecting", "fallback"}

Min(a, b) == IF a <= b THEN a ELSE b

RECURSIVE Pow(_, _)
Pow(b, e) == IF e <= 0 THEN 1 ELSE b * Pow(b, e - 1)

(***************************************************************************)
(* Timer handles.  left = -1 is null, left >= 0 a pending timer, left = -2 *)
(* a handle whose callback has run and which was never set back to null.  *)
(***************************************************************************)
NoTimer == [left |-> -1, base |-> 0, jitter |-> 0]
setTimeout(base, jitter) == [left |-> base + jitter, base |-> base, jitter |-> jitter]
IsPending(t) == t.left >= 0
IsDue(t) == t.left = 0
Fired(t) == [t EXCEPT !.left = -2]

NoError == <<>>
NoDate == -1

NoTransport == [live |-> FALSE, hooks |-> FALSE, listeners |-> FALSE]
IsFree(t) == ~t.live /\ ~t.hooks /\ ~t.listeners

(***************************************************************************)
(* Messages.  An event arrives on one of the channels the client listens  *)
(* to; its data is absent/empty, text JSON.parse rejects, JSON that is    *)
(* not an object (null: the `in` test throws, inside the try), or an      *)
(* object with an optional top-level PlaySessionStateNotification and an  *)
(* optional NotificationContainer holding a type and an optional          *)
(* PlaySessionStateNotification.  A PlaySessionStateNotification value is *)
(* absent, a single notification or an array of notifications; a          *)
(* notification has a sessionKey and a state.                             *)
(***************************************************************************)
NoNotification == [sessionKey |-> "", state |-> ""]
Absent == [form |-> "absent", one |-> NoNotification, items |-> <<>>]
Single(notification) == [form |-> "single", one |-> notification, items |-> <<>>]
Array(notifications) == [form |-> "array", one |-> NoNotification, items |-> notifications]

NoData(channel, kind) ==
    [channel |-> channel, kind |-> kind, direct |-> Absent, hasContainer |-> FALSE,
     type |-> "", wrapped |-> Absent]

\* no event: the handler was not a message listener
NoEvent == NoData("", "none")

InitThis ==
    [eventSource |-> 0,
     state |-> "disconnected",
     reconnectAttempts |-> 0,
     reconnectTimer |-> NoTimer,
     heartbeatTimer |-> NoTimer,
     connectionTimer |-> NoTimer,
     lastEventTime |-> NoDate,
     connectedAt |-> NoDate,
     lastError |-> NoError,
     listeners |-> FALSE]

\* getStatus() of an instance whose fields are t (serverId and serverName are
\* constants of the instance and left out)
getStatus(t) ==
    [state |-> t.state,
     connectedAt |-> t.connectedAt,
     lastEventAt |-> t.lastEventTime,
     reconnectAttempts |-> t.reconnectAttempts,
     error |-> t.lastError]

(***************************************************************************)
(* The handlers are functions of a world w: the instance, the module-level *)
(* class, the transports, the suspended connect() calls, the events        *)
(* emitted so far by the running handler, and counts of what it did.       *)
(***************************************************************************)
World ==
    [this |-> this,
     EventSourceClass |-> EventSourceClass,
     transports |-> transports,
     pending |-> pendingConnects,
     emitted |-> <<>>,
     errors |-> 0,
     built |-> 0,
     opened |-> FALSE,
     received |-> NoEvent,
     scheduled |-> NoTimer,
     leaked |-> 0,
     observed |-> <<>>,
     arm |-> armed,
     reentered |-> FALSE]

IsConnectionEvent(name) == name \in {"connection:state", "connection:error"}

\* this.emit(name, payload): the subscribers run before emit returns.  A
\* subscriber of connection:state reads getStatus(); the armed subscriber calls
\* disconnect() at the connection event it waits for.
RECURSIVE disconnect(_)
emit(w, name, payload) ==
    LET w1 == [w EXCEPT
                 !.emitted = Append(@, <<name, payload>>),
                 !.observed = IF name = "connection:state"
                              THEN Append(@, getStatus(w.this))
                              ELSE @]
    IN  IF IsConnectionEvent(name) /\ w1.arm > 0
        THEN IF w1.arm = 1
             THEN disconnect([w1 EXCEPT !.arm = 0, !.reentered = TRUE])
             ELSE [w1 EXCEPT !.arm = @ - 1]
        ELSE w1

IsConnectionState(e) == e[1] = "connection:state"

\* the states carried by the connection:state events among `events`, in order
ConnectionStates(events) ==
    LET changes == SelectSeq(events, IsConnectionState)
    IN  [i \in 1..Len(changes) |-> changes[i][2]]

\* the event is emitted also when the state is the one the client is in
setState_AlwaysEmits(w, state) ==
    emit([w EXCEPT !.this.state = state], "connection:state", state)

setState(w, state) ==
    IF w.this.state # state
    THEN emit([w EXCEPT !.this.state = state], "connection:state", state)
    ELSE w

clearConnectionTimeout(w) ==
    IF w.this.connectionTimer # NoTimer
    THEN [w EXCEPT !.this.connectionTimer = NoTimer]
    ELSE w

clearTimers(w) ==
    clearConnectionTimeout(
        [w EXCEPT !.this.reconnectTimer = NoTimer, !.this.heartbeatTimer = NoTimer])

startConnectionTimeout(w) ==
    [clearConnectionTimeout(w) EXCEPT
        !.this.connectionTimer = setTimeout(HEARTBEAT_TIMEOUT_MS, 0)]

\* the heartbeat window one tick longer than HEARTBEAT_TIMEOUT_MS
resetHeartbeatMonitor_LongerWindow(w) ==
    [w EXCEPT !.this.heartbeatTimer = setTimeout(HEARTBEAT_TIMEOUT_MS + 1, 0)]

\* an event also restarts a pending connection timeout
resetHeartbeatMonitor_RestartsConnectionTimeout(w) ==
    [w EXCEPT
       !.this.heartbeatTimer = setTimeout(HEARTBEAT_TIMEOUT_MS, 0),
       !.this.connectionTimer = IF IsPending(@) THEN setTimeout(HEARTBEAT_TIMEOUT_MS, 0) ELSE @]

resetHeartbeatMonitor(w) ==
    [w EXCEPT !.this.heartbeatTimer = setTimeout(HEARTBEAT_TIMEOUT_MS, 0)]

startHeartbeatMonitor(w) == resetHeartbeatMonitor(w)

\* cleanupEventSource without the removeEventListener calls of 228-239
cleanupEventSource_KeepsListeners(w) ==
    IF w.this.eventSource = 0
    THEN w
    ELSE [w EXCEPT
            !.transports[w.this.eventSource].live = FALSE,
            !.transports[w.this.eventSource].hooks = FALSE,
            !.this.eventSource = 0,
            !.this.listeners = FALSE]

cleanupEventSource(w) ==
    IF w.this.eventSource = 0
    THEN w
    ELSE [w EXCEPT
            !.transports[w.this.eventSource] =
                [live |-> FALSE,
                 hooks |-> FALSE,
                 listeners |-> IF w.this.listeners THEN FALSE ELSE @.listeners],
            !.this.eventSource = 0,
            !.this.listeners = FALSE]

(***************************************************************************)
(* The argument of handleError: an Error instance, another object (with or *)
(* without a message, with or without a status; status 0 is "no status")  *)
(* or anything else.  A message is a pair <<text, status>>: status n # 0  *)
(* stands for the suffix " (status: n)".                                   *)
(***************************************************************************)
ErrorOf(message) == [kind |-> "Error", hasMessage |-> TRUE, message |-> message, status |-> 0]

errorMessage(error) ==
    IF error.kind = "Error"
    THEN <<error.message, 0>>
    ELSE IF error.kind = "object"
         THEN <<IF error.hasMessage THEN error.message ELSE "Connection error",
                error.status>>
         ELSE <<"Connection error", 0>>

\* the base delay without the cap of MAX_RETRY_DELAY_MS
baseDelay_Uncapped(reconnectAttempts) ==
    INITIAL_RETRY_DELAY_MS * Pow(RETRY_MULTIPLIER, reconnectAttempts - 1)

\* the exponent counts the attempts that are left
baseDelay_FromAttemptsLeft(reconnectAttempts) ==
    Min(INITIAL_RETRY_DELAY_MS * Pow(RETRY_MULTIPLIER, MAX_RETRIES - reconnectAttempts),
        MAX_RETRY_DELAY_MS)

baseDelay(reconnectAttempts) ==
    Min(INITIAL_RETRY_DELAY_MS * Pow(RETRY_MULTIPLIER, reconnectAttempts - 1),
        MAX_RETRY_DELAY_MS)

\* this.reconnectTimer = setTimeout(...) (378): the handle is overwritten
\* without a look at the timer it may still hold
setReconnectTimer(w, timer) ==
    [w EXCEPT
       !.this.reconnectTimer = timer,
       !.scheduled = timer,
       !.leaked = @ + IF IsPending(w.this.reconnectTimer) THEN 1 ELSE 0]

\* the test of line 354 written with > instead of >=
scheduleReconnect_OneMoreRetry(w, jitter) ==
    IF w.this.reconnectAttempts > MAX_RETRIES
    THEN setState(w, "fallback")
    ELSE LET w1 == setState(w, "reconnecting")
             n == w1.this.reconnectAttempts + 1
         IN  setReconnectTimer([w1 EXCEPT !.this.reconnectAttempts = n],
                               setTimeout(baseDelay(n), jitter))

\* entering fallback announced by a connection:error of its own
scheduleReconnect_ErrorOnFallback(w, jitter) ==
    IF w.this.reconnectAttempts >= MAX_RETRIES
    THEN setState(emit(w, "connection:error", <<"Max retries reached", 0>>), "fallback")
    ELSE LET w1 == setState(w, "reconnecting")
             n == w1.this.reconnectAttempts + 1
         IN  setReconnectTimer([w1 EXCEPT !.this.reconnectAttempts = n],
                               setTimeout(baseDelay(n), jitter))

\* fallback keeps retrying at the maximum delay
scheduleReconnect_RetriesInFallback(w, jitter) ==
    IF w.this.reconnectAttempts >= MAX_RETRIES
    THEN setReconnectTimer(setState(w, "fallback"), setTimeout(MAX_RETRY_DELAY_MS, jitter))
    ELSE LET w1 == setState(w, "reconnecting")
             n == w1.this.reconnectAttempts + 1
         IN  setReconnectTimer([w1 EXCEPT !.this.reconnectAttempts = n],
                               setTimeout(baseDelay(n), jitter))

\* the client never gives up: past MAX_RETRIES it keeps retrying at the last delay
scheduleReconnect_NeverGivesUp(w, jitter) ==
    LET w1 == setState(w, "reconnecting")
        n == Min(w1.this.reconnectAttempts + 1, MAX_RETRIES)
    IN  setReconnectTimer([w1 EXCEPT !.this.reconnectAttempts = n],
                          setTimeout(baseDelay(n), jitter))

scheduleReconnect(w, jitter) ==
    IF w.this.reconnectAttempts >= MAX_RETRIES
    THEN setState(w, "fallback")
    ELSE LET w1 == setState(w, "reconnecting")
             n == w1.this.reconnectAttempts + 1
         IN  setReconnectTimer([w1 EXCEPT !.this.reconnectAttempts = n],
                               setTimeout(baseDelay(n), jitter))

\* handleError without the transport teardown of line 344
handleError_NoCleanup(w, error, jitter) ==
    LET w1 == clearTimers(w)
        w2 == [w1 EXCEPT !.this.lastError = errorMessage(error), !.errors = @ + 1]
        w3 == emit(w2, "connection:error", w2.this.lastError)
    IN  scheduleReconnect(w3, jitter)

handleError(w, error, jitter) ==
    LET w1 == clearTimers(w)
        w2 == [w1 EXCEPT !.this.lastError = errorMessage(error), !.errors = @ + 1]
        w3 == emit(w2, "connection:error", w2.this.lastError)
        w4 == cleanupEventSource(w3)
    IN  scheduleReconnect(w4, jitter)

FreeSlots(w) == {i \in 1..MaxTransports : IsFree(w.transports[i])}

\* new EventSourceClass(url, {headers}) and the handlers set on it (166-202)
openTransport(w) ==
    LET id == CHOOSE i \in FreeSlots(w) : \A j \in FreeSlots(w) : i <= j
        w1 == [w EXCEPT
                 !.transports[id] = [live |-> TRUE, hooks |-> FALSE, listeners |-> FALSE],
                 !.this.eventSource = id,
                 !.built = @ + 1]
        w2 == startConnectionTimeout(w1)
    IN  [w2 EXCEPT
           !.transports[id].hooks = TRUE,
           !.transports[id].listeners = TRUE,
           !.this.listeners = TRUE]

\* the guard of line 150 testing 'connected' only
connectLoaded_GuardConnectedOnly(w, jitter) ==
    IF w.this.state = "connected"
    THEN w
    ELSE LET w1 == clearTimers(setState(w, "connecting"))
         IN  IF urlValid
             THEN openTransport(w1)
             ELSE handleError(w1, ErrorOf("Invalid URL"), jitter)

\* connect() without the clearTimers() of line 155
connectLoaded_KeepsTimers(w, jitter) ==
    IF w.this.state \in {"connected", "connecting"}
    THEN w
    ELSE LET w1 == setState(w, "connecting")
         IN  IF urlValid
             THEN openTransport(w1)
             ELSE handleError(w1, ErrorOf("Invalid URL"), jitter)

\* connect() called in disconnected or fallback starting with a fresh retry budget
connectLoaded_FreshBudget(w, jitter) ==
    IF w.this.state \in {"connected", "connecting"}
    THEN w
    ELSE LET n == IF w.this.state = "reconnecting" THEN w.this.reconnectAttempts ELSE 0
             w1 == clearTimers(setState([w EXCEPT !.this.reconnectAttempts = n],
                                        "connecting"))
         IN  IF urlValid
             THEN openTransport(w1)
             ELSE handleError(w1, ErrorOf("Invalid URL"), jitter)

\* connect() from the state check on: what runs once the class is loaded
connectLoaded(w, jitter) ==
    IF w.this.state \in {"connected", "connecting"}
    THEN w
    ELSE LET w1 == clearTimers(setState(w, "connecting"))
         IN  IF urlValid
             THEN openTransport(w1)
             ELSE handleError(w1, ErrorOf("Invalid URL"), jitter)

\* connect() up to its first suspension point
connect(w, jitter) ==
    IF ~w.EventSourceClass
    THEN [w EXCEPT !.pending = @ + 1]
    ELSE connectLoaded(w, jitter)

\* the continuation of a suspended connect() once the import has resolved
connectResumed(w, jitter) ==
    connectLoaded([w EXCEPT !.EventSourceClass = TRUE, !.pending = @ - 1], jitter)

\* disconnect() without the clearTimers() of line 213
disconnect_KeepsTimers(w) ==
    LET w1 == setState(cleanupEventSource(w), "disconnected")
    IN  [w1 EXCEPT !.this.connectedAt = NoDate]

\* disconnect() also resetting the attempt counter
disconnect_ResetsAttempts(w) ==
    LET w1 == setState(cleanupEventSource(clearTimers(w)), "disconnected")
    IN  [w1 EXCEPT !.this.connectedAt = NoDate, !.this.reconnectAttempts = 0]

\* disconnect() without the transport teardown of line 213
disconnect_KeepsTransport(w) ==
    LET w1 == setState(clearTimers(w), "disconnected")
    IN  [w1 EXCEPT !.this.connectedAt = NoDate]

disconnect(w) ==
    LET w1 == setState(cleanupEventSource(clearTimers(w)), "disconnected")
    IN  [w1 EXCEPT !.this.connectedAt = NoDate]

\* onopen without the counter reset of line 181
onopen_KeepsAttempts(w) ==
    IF w.this.state # "connecting"
    THEN w
    ELSE LET w1 == setState(clearConnectionTimeout(w), "connected")
             w2 == [w1 EXCEPT
                      !.this.connectedAt = 0,
                      !.this.lastError = NoError,
                      !.opened = TRUE]
         IN  startHeartbeatMonitor(w2)

\* onopen without the state test of line 173
onopen_Unguarded(w) ==
    LET w1 == setState(clearConnectionTimeout(w), "connected")
        w2 == [w1 EXCEPT
                 !.this.connectedAt = 0,
                 !.this.reconnectAttempts = 0,
                 !.this.lastError = NoError,
                 !.opened = TRUE]
    IN  startHeartbeatMonitor(w2)

\* onopen without lastError = null of line 182
onopen_KeepsError(w) ==
    IF w.this.state # "connecting"
    THEN w
    ELSE LET w1 == setState(clearConnectionTimeout(w), "connected")
             w2 == [w1 EXCEPT
                      !.this.connectedAt = 0,
                      !.this.reconnectAttempts = 0,
                      !.opened = TRUE]
         IN  startHeartbeatMonitor(w2)

onopen(w) ==
    IF w.this.state # "connecting"
    THEN w
    ELSE LET w1 == setState(clearConnectionTimeout(w), "connected")
             w2 == [w1 EXCEPT
                      !.this.connectedAt = 0,
                      !.this.reconnectAttempts = 0,
                      !.this.lastError = NoError,
                      !.opened = TRUE]
         IN  startHeartbeatMonitor(w2)

onerror(w, error, jitter) == handleError(w, error, jitter)

(***************************************************************************)
(* Message handling (254-319)                                              *)
(***************************************************************************)
\* a single notification is not wrapped into a list
toArray_ArraysOnly(value) == value.items

\* Array.isArray(x) ? x : [x]
toArray(value) == IF value.form = "array" THEN value.items ELSE <<value.one>>

\* the event is chosen by the container type when that is "playing"
handlePlaySessionNotification_ByEventType(w, notification, eventType) ==
    CASE eventType = "playing" -> emit(w, "session:playing", notification)
      [] notification.state = "playing" -> emit(w, "session:playing", notification)
      [] notification.state = "paused" -> emit(w, "session:paused", notification)
      [] notification.state = "stopped" -> emit(w, "session:stopped", notification)
      [] notification.state = "buffering" -> emit(w, "session:playing", notification)
      [] OTHER -> w

handlePlaySessionNotification(w, notification, eventType) ==
    CASE notification.state = "playing" -> emit(w, "session:playing", notification)
      [] notification.state = "paused" -> emit(w, "session:paused", notification)
      [] notification.state = "stopped" -> emit(w, "session:stopped", notification)
      [] notification.state = "buffering" -> emit(w, "session:playing", notification)
      [] OTHER -> w

RECURSIVE forEachNotification(_, _, _)
forEachNotification(w, notifications, eventType) ==
    IF notifications = <<>>
    THEN w
    ELSE forEachNotification(
            handlePlaySessionNotification(w, Head(notifications), eventType),
            Tail(notifications), eventType)

\* a payload that fails to parse is passed to the error path
handleMessage_ParseErrorIsError(w, event) ==
    LET w1 == resetHeartbeatMonitor([w EXCEPT !.this.lastEventTime = 0])
    IN  IF event.kind = "empty"
        THEN w1
        ELSE IF event.kind \in {"unparsable", "null"}
             THEN handleError(w1, ErrorOf("Unexpected token"), 0)
             ELSE IF event.direct.form # "absent" /\ ~event.hasContainer
                  THEN handlePlaySessionNotification(w1, event.direct.one, "playing")
                  ELSE IF event.hasContainer /\ event.wrapped.form # "absent"
                       THEN forEachNotification(w1, toArray(event.wrapped), event.type)
                       ELSE w1

handleMessage(w, event) ==
    LET w1 == resetHeartbeatMonitor([w EXCEPT !.this.lastEventTime = 0])
    IN  IF event.kind = "empty"
        THEN w1
        ELSE IF event.kind \in {"unparsable", "null"}
             THEN w1
             ELSE IF event.direct.form # "absent" /\ ~event.hasContainer
                  THEN handlePlaySessionNotification(w1, event.direct.one, "playing")
                  ELSE IF event.hasContainer /\ event.wrapped.form # "absent"
                       THEN forEachNotification(w1, toArray(event.wrapped), event.type)
                       ELSE w1

\* the listeners registered on the transport (186-198)
messageListener(w, event) == handleMessage(w, event)
playingListener(w, event) == handleMessage(w, event)
notificationListener(w, event) == handleMessage(w, event)

dispatchEvent(w, event) ==
    CASE event.channel = "message" -> messageListener(w, event)
      [] event.channel = "playing" -> playingListener(w, event)
      [] event.channel = "notification" -> notificationListener(w, event)

\* a ping listener that leaves the heartbeat timer alone
pingListener_NoReset(w) == w

pingListener(w) == resetHeartbeatMonitor(w)

\* a reconnect timer whose callback does not call connect()
reconnectTimerCallback_Idle(w, jitter) == w

\* the callbacks given to setTimeout (378-383, 402-408, 428-434)
reconnectTimerCallback(w, jitter) ==
    IF w.this.state = "disconnected" THEN w ELSE connect(w, jitter)

heartbeatTimerCallback(w, jitter) ==
    IF w.this.state = "disconnected"
    THEN w
    ELSE handleError(w, ErrorOf("Heartbeat timeout"), jitter)

connectionTimerCallback(w, jitter) ==
    IF w.this.state = "disconnected"
    THEN w
    ELSE handleError(w, ErrorOf("Connection timeout"), jitter)

(***************************************************************************)
(* Inputs                                                                  *)
(***************************************************************************)
Jitters == 0..(JitterTicks - 1)

TransportErrors ==
    {[kind |-> "object", hasMessage |-> FALSE, message |-> "", status |-> 0],
     [kind |-> "object", hasMessage |-> TRUE, message |-> "Non-200 status code", status |-> 503]}

Json(channel, direct, hasContainer, type, wrapped) ==
    [channel |-> channel, kind |-> "json", direct |-> direct,
     hasContainer |-> hasContainer, type |-> type, wrapped |-> wrapped]

N(sessionKey, state) == [sessionKey |-> sessionKey, state |-> state]

Events ==
    {NoData("message", "empty"),
     NoData("message", "unparsable"),
     NoData("notification", "null"),
     Json("playing", Single(N("k1", "buffering")), FALSE, "", Absent),
     Json("message", Single(N("k1", "buffering")), FALSE, "", Absent),
     Json("playing", Single(N("k1", "error")), FALSE, "", Absent),
     Json("notification", Absent, TRUE, "playing",
          Array(<<N("k1", "playing"), N("k2", "paused"), N("k3", "stopped")>>)),
     Json("message", Absent, TRUE, "playing", Single(N("k1", "paused"))),
     Json("playing", Absent, TRUE, "timeline",
          Array(<<N("k1", "buffering"), N("k2", "error"), N("k1", "stopped")>>)),
     Json("notification", Single(N("k1", "playing")), TRUE, "playing",
          Single(N("k2", "stopped"))),
     Json("message", Absent, TRUE, "timeline", Absent),
     Json("message", Absent, FALSE, "", Absent)}

(***************************************************************************)
(* Actions                                                                 *)
(***************************************************************************)
Init ==
    /\ this = InitThis
    /\ EventSourceClass = FALSE
    /\ transports = [i \in 1..MaxTransports |-> NoTransport]
    /\ pendingConnects = 0
    /\ urlValid \in BOOLEAN
    /\ emitted = <<>>
    /\ last = [op |-> "new", from |-> "disconnected", attempts |-> 0, errors |-> 0,
               built |-> 0, silence |-> 0, event |-> NoEvent, reentered |-> FALSE]
    /\ failures = 0
    /\ sinceRecv = 0
    /\ resetFrom = -1
    /\ announced = "disconnected"
    /\ scheduled = NoTimer
    /\ leakedTimers = FALSE
    /\ cancelled = FALSE
    /\ retries = 0
    /\ observed = <<>>
    /\ armed = 0

\* the handler `op` took the world to w
Becomes(op, world) ==
    \E w \in {world} :
        /\ this' = w.this
        /\ EventSourceClass' = w.EventSourceClass
        /\ transports' = w.transports
        /\ pendingConnects' = w.pending
        /\ emitted' = w.emitted
        /\ last' = [op |-> op, from |-> this.state, attempts |-> this.reconnectAttempts,
                    errors |-> w.errors, built |-> w.built,
                    silence |-> IF op \in {"heartbeatTimer", "ping"}
                                THEN sinceRecv
                                ELSE 0,
                    event |-> w.received,
                    reentered |-> w.reentered]
        /\ failures' = IF w.opened THEN 0 ELSE Min(failures + w.errors, MAX_RETRIES + 1)
        /\ sinceRecv' = IF w.this.state # "connected" \/ w.opened \/ op \in {"message", "ping"}
                        THEN 0
                        ELSE sinceRecv
        /\ resetFrom' = IF w.opened
                        THEN this.reconnectAttempts
                        ELSE IF failures > 0 THEN -1 ELSE resetFrom
        /\ announced' = IF ConnectionStates(w.emitted) = <<>>
                        THEN announced
                        ELSE ConnectionStates(w.emitted)[Len(ConnectionStates(w.emitted))]
        /\ scheduled' = IF w.opened
                        THEN NoTimer
                        ELSE IF w.scheduled # NoTimer THEN w.scheduled ELSE scheduled
        /\ leakedTimers' = (leakedTimers \/ w.leaked > 0)
        /\ cancelled' = IF op = "disconnect" \/ w.reentered
                        THEN TRUE
                        ELSE IF op = "connect" THEN FALSE ELSE cancelled
        /\ retries' = IF op \in {"connect", "resume", "disconnect"} \/ w.opened
                      THEN 0
                      ELSE IF op = "reconnectTimer"
                           THEN Min(retries + 1, MAX_RETRIES + 1)
                           ELSE retries
        /\ observed' = w.observed
        /\ armed' = IF w.reentered \/ armed < 0 THEN -1 ELSE 0
        /\ UNCHANGED urlValid

CanBuild == FreeSlots(World) # {}

Connect ==
    /\ EventSourceClass \/ pendingConnects < MaxPending
    /\ CanBuild
    /\ \E jitter \in Jitters : Becomes("connect", connect(World, jitter))

ImportResolved ==
    /\ pendingConnects > 0
    /\ CanBuild
    /\ \E jitter \in Jitters : Becomes("resume", connectResumed(World, jitter))

\* the import fails: the suspended connect() ends with a rejected promise
ImportRejected ==
    /\ pendingConnects > 0
    /\ ~EventSourceClass
    /\ Becomes("rejected", [World EXCEPT !.pending = @ - 1])

Disconnect == Becomes("disconnect", disconnect(World))

Hooked == \E i \in 1..MaxTransports : transports[i].hooks
Listened == \E i \in 1..MaxTransports : transports[i].listeners

OnOpen == Hooked /\ Becomes("open", onopen(World))

OnError ==
    /\ Hooked
    /\ \E error \in TransportErrors, jitter \in Jitters :
          Becomes("error", onerror(World, error, jitter))

OnMessage ==
    /\ Listened
    /\ \E event \in Events :
          Becomes("message", dispatchEvent([World EXCEPT !.received = event], event))

OnPing == Listened /\ Becomes("ping", pingListener(World))

ReconnectTimerFires ==
    /\ IsDue(this.reconnectTimer)
    /\ EventSourceClass \/ pendingConnects < MaxPending
    /\ CanBuild
    /\ \E jitter \in Jitters :
          Becomes("reconnectTimer",
                  reconnectTimerCallback(
                      [World EXCEPT !.this.reconnectTimer = Fired(@)], jitter))

\* Both timers run HEARTBEAT_TIMEOUT_MS and the connection timer of a transport
\* is started before any of its events can arrive (170, 193-198): when both are
\* due the connection timer, started first, runs first.
HeartbeatTimerFires ==
    /\ IsDue(this.heartbeatTimer)
    /\ ~IsDue(this.connectionTimer)
    /\ \E jitter \in Jitters :
          Becomes("heartbeatTimer",
                  heartbeatTimerCallback(
                      [World EXCEPT !.this.heartbeatTimer = Fired(@)], jitter))

ConnectionTimerFires ==
    /\ IsDue(this.connectionTimer)
    /\ \E jitter \in Jitters :
          Becomes("connectionTimer",
                  connectionTimerCallback(
                      [World EXCEPT !.this.connectionTimer = Fired(@)], jitter))

Elapse(t) == IF IsPending(t) THEN [t EXCEPT !.left = @ - 1] ELSE t
Older(date) == IF date = NoDate THEN NoDate ELSE Min(date + 1, MaxAge)

Tick ==
    /\ ~IsDue(this.reconnectTimer)
    /\ ~IsDue(this.heartbeatTimer)
    /\ ~IsDue(this.connectionTimer)
    /\ this' = [this EXCEPT
                  !.reconnectTimer = Elapse(@),
                  !.heartbeatTimer = Elapse(@),
                  !.connectionTimer = Elapse(@),
                  !.lastEventTime = Older(@),
                  !.connectedAt = Older(@)]
    /\ sinceRecv' = IF this.state = "connected"
                    THEN Min(sinceRecv + 1, HEARTBEAT_TIMEOUT_MS + 1)
                    ELSE 0
    /\ emitted' = <<>>
    /\ last' = [op |-> "tick", from |-> this.state, attempts |-> this.reconnectAttempts,
                errors |-> 0, built |-> 0, silence |-> 0, event |-> NoEvent,
                reentered |-> FALSE]
    /\ observed' = <<>>
    /\ UNCHANGED <<EventSourceClass, transports, pendingConnects, urlValid,
                   failures, resetFrom, announced, scheduled, leakedTimers,
                   cancelled, retries, armed>>

Next ==
    \/ Connect
    \/ ImportResolved
    \/ ImportRejected
    \/ Disconnect
    \/ OnOpen
    \/ OnError
    \/ OnMessage
    \/ OnPing
    \/ ReconnectTimerFires
    \/ HeartbeatTimerFires
    \/ ConnectionTimerFires
    \/ Tick

Spec == Init /\ [][Next]_vars

(***************************************************************************)
(* A subscriber that calls disconnect() from inside a connection:state or  *)
(* connection:error notification.  Arm is the subscriber making up its     *)
(* mind: at the k-th connection event the next handler emits, it calls     *)
(* disconnect() before emit returns (see emit), once.  Spec has no such    *)
(* subscriber: armed stays 0 there.                                        *)
(***************************************************************************)
Arm ==
    /\ armed = 0
    /\ armed' \in 1..MaxArmed
    /\ UNCHANGED <<this, EventSourceClass, transports, pendingConnects, urlValid,
                   emitted, last, failures, sinceRecv, resetFrom, announced,
                   scheduled, leakedTimers, cancelled, retries, observed>>

NextReentrant == Next \/ Arm

SpecReentrant == Init /\ [][NextReentrant]_vars

(***************************************************************************)
(* Node's event loop: time passes, and a timer that is due has its         *)
(* callback run.  A timer's callback is enabled exactly while the timer is *)
(* due (DueTimersCanFire below), time does not pass while it is, and it    *)
(* stops being due only when its callback runs or a handler clears it; so  *)
(* weak fairness of each ...TimerFires action is that its timer is not due *)
(* forever.  Nothing is assumed of the callers of connect() and            *)
(* disconnect(), of the lazy import, or of what the transport delivers.    *)
(***************************************************************************)
SpecLive ==
    /\ Spec
    /\ WF_vars(Tick)
    /\ []<>(~IsDue(this.reconnectTimer))
    /\ []<>(~IsDue(this.heartbeatTimer))
    /\ []<>(~IsDue(this.connectionTimer))

(***************************************************************************)
(* Properties                                                              *)
(***************************************************************************)
Live == {i \in 1..MaxTransports : transports[i].live}
Attached == {i \in 1..MaxTransports : transports[i].hooks \/ transports[i].listeners}
CountOf(events, name) == Cardinality({i \in DOMAIN events : events[i][1] = name})
NoTimers ==
    /\ this.reconnectTimer = NoTimer
    /\ this.heartbeatTimer = NoTimer
    /\ this.connectionTimer = NoTimer

\* C1: at most one transport is live at any time, and a live transport is the
\* one the client holds in eventSource, so connect() never constructs a
\* transport while an earlier one is still open.
C1_AtMostOneLiveTransport ==
    /\ Cardinality(Live) <= 1
    /\ \A i \in Live : this.eventSource = i
    /\ last.built <= 1

\* a reconnect constructed a new transport after the earlier one was torn down
C1_Witness ==
    /\ urlValid
    /\ last.op = "reconnectTimer"
    /\ last.built = 1
    /\ Cardinality(Live) = 1

\* C2: connect(), called or resumed after the lazy import, while the state is
\* connecting or connected changes no field of the client, constructs no
\* transport and emits nothing; so of two connect() calls suspended on the
\* import, the one resumed second (state connecting) constructs nothing.
C2_ConnectWhileActiveIsNoOp ==
    [][(last'.op \in {"connect", "resume"} /\ this.state \in {"connecting", "connected"})
         => /\ this' = this
            /\ transports' = transports
            /\ emitted' = <<>>
            /\ last'.built = 0]_vars

\* the second of two suspended connect() calls resumed while connecting
C2_Witness ==
    /\ last.op = "resume"
    /\ last.from = "connecting"
    /\ this.state = "connecting"
    /\ Cardinality(Live) = 1

\* C3: disconnect(), from whichever state, leaves the state disconnected with
\* no transport held or live, connectedAt null and no timer pending; and in
\* the state it leaves, the reconnect timer's callback, were it run, would
\* start no connect() and change nothing.
C3_DisconnectAlwaysDisconnects ==
    last.op = "disconnect" =>
        /\ this.state = "disconnected"
        /\ this.eventSource = 0
        /\ Live = {}
        /\ Attached = {}
        /\ this.connectedAt = NoDate
        /\ NoTimers
        /\ \A jitter \in Jitters : reconnectTimerCallback(World, jitter) = World

\* disconnect() cancelled a pending reconnect
C3_Witness ==
    /\ last.op = "disconnect"
    /\ last.from = "reconnecting"
    /\ this.state = "disconnected"

C5_OpenResetsBackoff ==
    /\ (last.op = "open" /\ last.from = "connecting") => this.reconnectAttempts = 0
    /\ (last.errors > 0 /\ failures = 1 /\ resetFrom >= 0) =>
          /\ this.state = "reconnecting"
          /\ this.reconnectAttempts = 1
          /\ this.reconnectTimer.base = INITIAL_RETRY_DELAY_MS
          /\ this.reconnectTimer.jitter \in Jitters
          /\ this.reconnectTimer.left = INITIAL_RETRY_DELAY_MS + this.reconnectTimer.jitter

\* first failure after an open that found the counter at MAX_RETRIES
C5_Witness ==
    /\ last.errors > 0
    /\ failures = 1
    /\ resetFrom = MAX_RETRIES
    /\ this.reconnectTimer.base = INITIAL_RETRY_DELAY_MS

\* C6: the attempt counter decreases only in an open callback received while
\* connecting, which sets it to 0; no other handler (connect, disconnect,
\* messages, pings, timer callbacks, reconnect scheduling) lowers it.
C6_OnlyOpenResetsAttempts ==
    [][this'.reconnectAttempts < this.reconnectAttempts
         => /\ last'.op = "open"
            /\ this.state = "connecting"
            /\ this'.state = "connected"
            /\ this'.reconnectAttempts = 0]_vars

\* disconnect() followed by connect() kept an escalated counter
C6_Witness ==
    /\ last.op = "connect"
    /\ last.from = "disconnected"
    /\ this.state = "connecting"
    /\ this.reconnectAttempts = MAX_RETRIES

\* C7: a transport error callback, a connection timeout or a heartbeat timeout
\* in connecting or connected, and a construction failure inside connect(),
\* each run the error path once: one connection:error is emitted, followed
\* directly by the connection:state for reconnecting or fallback, which ends
\* the handler; the transport is torn down and the heartbeat and connection
\* timers are cleared; in fallback no reconnect timer is left either.
C7_FailureRunsErrorPath ==
    /\ (last.op \in {"error", "heartbeatTimer", "connectionTimer"}
          /\ last.from \in {"connecting", "connected"}) => last.errors = 1
    /\ (~urlValid /\ last.op \in {"connect", "resume", "reconnectTimer"}
          /\ CountOf(emitted, "connection:state") > 0) => last.errors = 1
    /\ last.errors > 0 =>
          /\ last.errors = 1
          /\ CountOf(emitted, "connection:error") = 1
          /\ Len(emitted) >= 2
          /\ emitted[Len(emitted) - 1] = <<"connection:error", this.lastError>>
          /\ emitted[Len(emitted)] = <<"connection:state", this.state>>
          /\ this.state \in {"reconnecting", "fallback"}
          /\ this.lastError # NoError
          /\ this.eventSource = 0
          /\ Live = {}
          /\ Attached = {}
          /\ this.heartbeatTimer = NoTimer
          /\ this.connectionTimer = NoTimer
          /\ (this.state = "fallback" => this.reconnectTimer = NoTimer)

\* a transport error while connecting, the retries used up, ended in fallback
C7_Witness ==
    /\ last.op = "error"
    /\ last.from = "connecting"
    /\ this.state = "fallback"
    /\ emitted = << <<"connection:error", this.lastError>>, <<"connection:state", "fallback">> >>

\* C8 as stated: no connect() call ends with a rejected promise, and a
\* connect() that failed to load the transport class has run the error path
\* (one connection:error, state reconnecting or fallback).
C8_ConnectNeverRejects ==
    /\ last.op # "rejected"
    /\ last.op = "rejected" =>
          /\ CountOf(emitted, "connection:error") = 1
          /\ this.state \in {"reconnecting", "fallback"}

\* C9: while connected the heartbeat timer fires only after
\* HEARTBEAT_TIMEOUT_MS of silence since the last received message or ping (or
\* since the open), and the error path is entered from connected only by that
\* or by a transport error; so events spaced under the timeout keep the client
\* out of the error path.
C9_NoHeartbeatTimeoutWhileEventsArrive ==
    /\ (last.op = "heartbeatTimer" /\ last.from = "connected")
          => last.silence >= HEARTBEAT_TIMEOUT_MS
    /\ (last.errors > 0 /\ last.from = "connected")
          => last.op \in {"error", "heartbeatTimer"}
    /\ (last.op \in {"message", "ping"} /\ last.from = "connected")
          => /\ this.state = "connected"
             /\ last.errors = 0
             /\ this.heartbeatTimer = setTimeout(HEARTBEAT_TIMEOUT_MS, 0)

\* a ping one tick before the timeout re-armed the timer
C9_Witness ==
    /\ HEARTBEAT_TIMEOUT_MS > 1
    /\ last.op = "ping"
    /\ last.from = "connected"
    /\ last.silence = HEARTBEAT_TIMEOUT_MS - 1
    /\ this.state = "connected"
    /\ this.heartbeatTimer.left = HEARTBEAT_TIMEOUT_MS

\* C10: while connected the heartbeat timer is pending and due exactly when
\* the silence reaches HEARTBEAT_TIMEOUT_MS, and time cannot pass beyond that
\* without it firing; its firing runs the error path once: one
\* connection:error 'Heartbeat timeout', one connection:state leaving
\* connected, and the heartbeat handle is null afterwards, so it fires once.
C10_HeartbeatTimeoutFiresOnce ==
    /\ this.state = "connected" =>
          /\ sinceRecv <= HEARTBEAT_TIMEOUT_MS
          /\ this.heartbeatTimer.left = HEARTBEAT_TIMEOUT_MS - sinceRecv
    /\ (last.op = "heartbeatTimer" /\ last.from = "connected") =>
          /\ last.silence = HEARTBEAT_TIMEOUT_MS
          /\ last.errors = 1
          /\ this.state \in {"reconnecting", "fallback"}
          /\ emitted = << <<"connection:error", <<"Heartbeat timeout", 0>>>>,
                          <<"connection:state", this.state>> >>
          /\ this.lastError = <<"Heartbeat timeout", 0>>
          /\ this.heartbeatTimer = NoTimer

\* the heartbeat timer fired on a silent connection
C10_Witness ==
    /\ last.op = "heartbeatTimer"
    /\ last.from = "connected"
    /\ last.silence = HEARTBEAT_TIMEOUT_MS
    /\ this.state = "reconnecting"

(***************************************************************************)
(* Session events: the mapping the specification states, written from its *)
(* text and independent of the handlers above.                             *)
(***************************************************************************)
SessionNames == {"session:playing", "session:paused", "session:stopped"}
Recognized == {"playing", "paused", "stopped", "buffering"}

SessionEventOf(state) ==
    CASE state = "playing" -> "session:playing"
      [] state = "buffering" -> "session:playing"
      [] state = "paused" -> "session:paused"
      [] state = "stopped" -> "session:stopped"

IsSessionEvent(e) == e[1] \in SessionNames
HasRecognizedState(notification) == notification.state \in Recognized

SessionEvents(events) == SelectSeq(events, IsSessionEvent)

\* one session event per notification with a recognized state, in list order
ExpectedSessionEvents(notifications) ==
    LET recognized == SelectSeq(notifications, HasRecognizedState)
    IN  [i \in 1..Len(recognized) |->
            <<SessionEventOf(recognized[i].state), recognized[i]>>]

\* a single notification is read as a one-element list
NotificationList(value) ==
    CASE value.form = "array" -> value.items
      [] value.form = "single" -> <<value.one>>
      [] OTHER -> <<>>

NamesOf(events) == [i \in 1..Len(events) |-> events[i][1]]

IsWrapped(event) ==
    event.kind = "json" /\ event.hasContainer /\ event.wrapped.form # "absent"

\* C11: a message whose NotificationContainer holds a PlaySessionStateNotification
\* list (or a single notification, read as a one-element list) emits exactly one
\* session event per notification with a recognized state, in list order, each
\* carrying its notification, and nothing else; for the states playing, paused,
\* stopped the events are session:playing, session:paused, session:stopped.
C11_WrappedListEmitsInOrder ==
    (last.op = "message" /\ IsWrapped(last.event)) =>
        /\ emitted = ExpectedSessionEvents(NotificationList(last.event.wrapped))
        /\ ([i \in 1..Len(last.event.wrapped.items) |-> last.event.wrapped.items[i].state]
               = <<"playing", "paused", "stopped">>
            => NamesOf(emitted) = <<"session:playing", "session:paused", "session:stopped">>)

C11_Witness ==
    /\ last.op = "message"
    /\ IsWrapped(last.event)
    /\ last.event.wrapped.form = "array"
    /\ Len(last.event.wrapped.items) = 3
    /\ NamesOf(emitted) = <<"session:playing", "session:paused", "session:stopped">>

C11_WitnessSingle ==
    /\ last.op = "message"
    /\ IsWrapped(last.event)
    /\ last.event.wrapped.form = "single"
    /\ Len(emitted) = 1

ChannelNames == {"message", "playing", "notification"}
ContainerTypes == {"playing", "timeline", ""}

\* the notifications of a payload that reach handlePlaySessionNotification
HandledNotifications(event) ==
    IF event.kind # "json"
    THEN <<>>
    ELSE IF event.direct.form # "absent" /\ ~event.hasContainer
         THEN NotificationList(event.direct)
         ELSE IF event.hasContainer THEN NotificationList(event.wrapped) ELSE <<>>

\* C12: the session events of a message are determined by the state fields of
\* its notifications alone: playing and buffering give one session:playing,
\* paused one session:paused, stopped one session:stopped, any other state gives
\* no event and no error; the same payload on another channel or with another
\* container type gives the same events.
C12_EventDependsOnStateOnly ==
    last.op = "message" =>
        /\ emitted = ExpectedSessionEvents(HandledNotifications(last.event))
        /\ last.errors = 0
        /\ \A channel \in ChannelNames, type \in ContainerTypes :
              dispatchEvent(World, [last.event EXCEPT !.channel = channel,
                                                      !.type = type]).emitted
                  = emitted

C12_Witness ==
    /\ last.op = "message"
    /\ last.event.channel = "playing"
    /\ last.event.type = "timeline"
    /\ [i \in 1..Len(last.event.wrapped.items) |-> last.event.wrapped.items[i].state]
           = <<"buffering", "error", "stopped">>
    /\ NamesOf(emitted) = <<"session:playing", "session:stopped">>

\* C13: a message whose data JSON.parse rejects (or parses to a non-object)
\* emits nothing, neither a session event nor connection:error, runs no error
\* path, and leaves the state, the transport and its listeners, the attempt
\* counter, the last error and the reconnect and connection timers as they
\* were; a later message on the same connection is handled as usual.
C13_UnparsableMessageIsDropped ==
    [][/\ (last'.op = "message" /\ last'.event.kind \in {"unparsable", "null"}) =>
          /\ emitted' = <<>>
          /\ last'.errors = 0
          /\ this'.state = this.state
          /\ this'.eventSource = this.eventSource
          /\ transports' = transports
          /\ this'.reconnectAttempts = this.reconnectAttempts
          /\ this'.lastError = this.lastError
          /\ this'.reconnectTimer = this.reconnectTimer
          /\ this'.connectionTimer = this.connectionTimer
          /\ this'.connectedAt = this.connectedAt
          /\ failures' = failures
          /\ Listened'
       /\ (last.op = "message" /\ last.event.kind \in {"unparsable", "null"}
              /\ last'.op = "message") =>
             emitted' = ExpectedSessionEvents(HandledNotifications(last'.event))]_vars

\* an unparsable message arrived on an open connection, which stays open
C13_Witness ==
    /\ last.op = "message"
    /\ last.event.kind = "unparsable"
    /\ last.from = "connected"
    /\ this.lastError = NoError
    /\ this.state = "connected"
    /\ this.heartbeatTimer = setTimeout(HEARTBEAT_TIMEOUT_MS, 0)

\* C14: connection:state is emitted once per change of state and carries the
\* new state: the states a handler emits start from a state other than the one
\* it began in, never repeat the one before, and end in the state the client
\* is left in; a handler that emits none leaves the state as it was.  So the
\* latest emitted state is always the current one, and the emitted states are
\* the states the client passed through, in order.
C14_StateEventPerChange ==
    [][LET passed == ConnectionStates(emitted')
       IN  /\ announced = this.state
           /\ announced' = this'.state
           /\ IF passed = <<>>
              THEN this'.state = this.state
              ELSE /\ passed[1] # this.state
                   /\ passed[Len(passed)] = this'.state
                   /\ \A i \in 1..(Len(passed) - 1) : passed[i] # passed[i + 1]]_vars

\* connect() from disconnected whose transport cannot be constructed: the state
\* passes through connecting to reconnecting inside the one call
C14_Witness ==
    /\ last.op \in {"connect", "resume"}
    /\ last.from = "disconnected"
    /\ ConnectionStates(emitted) = <<"connecting", "reconnecting">>
    /\ this.state = "reconnecting"
    /\ announced = "reconnecting"

\* C15: in fallback no timer handle is set and no transport exists, live or
\* with a callback attached; the only handlers that run in fallback are
\* connect() (a new call or the continuation of one suspended on the import)
\* and disconnect(), and otherwise only time passes, which leaves the client in
\* fallback without a transport.
C15_FallbackIsStable ==
    [][this.state = "fallback" =>
          /\ NoTimers
          /\ this.eventSource = 0
          /\ Live = {}
          /\ Attached = {}
          /\ last'.op \in {"connect", "resume", "disconnect", "tick"}
          /\ last'.op = "tick" =>
                /\ this'.state = "fallback"
                /\ transports' = transports
                /\ pendingConnects' = pendingConnects
                /\ this'.reconnectAttempts = this.reconnectAttempts
                /\ emitted' = <<>>]_vars

\* time passed in fallback
C15_Witness ==
    /\ this.state = "fallback"
    /\ last.op = "tick"
    /\ last.from = "fallback"
    /\ failures = MAX_RETRIES + 1

\* C16: an open callback that arrives when the state is not connecting changes
\* nothing (state, attempt counter, connectedAt, last error, timers, transport)
\* and emits nothing; and the state becomes connected only in an open callback
\* received while connecting.
C16_OpenOnlyWhileConnecting ==
    [][/\ (last'.op = "open" /\ this.state # "connecting") =>
             /\ this' = this
             /\ emitted' = <<>>
             /\ transports' = transports
             /\ failures' = failures
       /\ (this'.state = "connected" /\ this.state # "connected") =>
             /\ last'.op = "open"
             /\ this.state = "connecting"]_vars

\* a second open callback on an open connection, after some silence
C16_Witness ==
    /\ last.op = "open"
    /\ last.from = "connected"
    /\ this.state = "connected"
    /\ emitted = <<>>
    /\ IsPending(this.heartbeatTimer)
    /\ this.heartbeatTimer.left < HEARTBEAT_TIMEOUT_MS

\* C17: the reconnect timer scheduled for attempt n, 1 <= n <= MAX_RETRIES, has
\* a delay of at least min(INITIAL_RETRY_DELAY_MS * RETRY_MULTIPLIER^(n-1),
\* MAX_RETRY_DELAY_MS) and less than MAX_RETRY_DELAY_MS plus the jitter width.
C17_ReconnectDelayBounds ==
    (last.errors > 0 /\ this.state = "reconnecting") =>
        LET n == this.reconnectAttempts
            delay == this.reconnectTimer.left
            power == INITIAL_RETRY_DELAY_MS * Pow(RETRY_MULTIPLIER, n - 1)
        IN  /\ n \in 1..MAX_RETRIES
            /\ scheduled = this.reconnectTimer
            /\ delay >= (IF power <= MAX_RETRY_DELAY_MS THEN power ELSE MAX_RETRY_DELAY_MS)
            /\ delay < MAX_RETRY_DELAY_MS + JitterTicks

\* the last retry scheduled at the cap with the largest jitter
C17_Witness ==
    /\ last.errors > 0
    /\ this.state = "reconnecting"
    /\ this.reconnectAttempts = MAX_RETRIES
    /\ INITIAL_RETRY_DELAY_MS * Pow(RETRY_MULTIPLIER, MAX_RETRIES - 1) > MAX_RETRY_DELAY_MS
    /\ this.reconnectTimer.left = MAX_RETRY_DELAY_MS + JitterTicks - 1

\* C18 as stated: within one run of consecutive failures the delay scheduled
\* for attempt n+1 is never smaller than the delay scheduled for attempt n,
\* whatever the jitters.
C18_DelayNeverDecreases ==
    [][(this.reconnectAttempts >= 1
          /\ this'.reconnectAttempts = this.reconnectAttempts + 1) =>
             scheduled'.left >= scheduled.left]_vars

\* C18 amended: within one run of consecutive failures the base delay of
\* attempt n+1 is never smaller than the base delay of attempt n; the delay
\* with its jitter may be smaller, by less than the jitter width.
C18_BaseDelayNeverDecreases ==
    [][(this.reconnectAttempts >= 1
          /\ this'.reconnectAttempts = this.reconnectAttempts + 1) =>
             /\ scheduled # NoTimer
             /\ scheduled' = this'.reconnectTimer
             /\ scheduled'.base >= scheduled.base
             /\ scheduled'.left = scheduled'.base + scheduled'.jitter
             /\ scheduled.left = scheduled.base + scheduled.jitter
             /\ scheduled'.left > scheduled.left - JitterTicks]_vars

\* a later attempt scheduled at the cap with no jitter, where the attempt
\* before it had the same base delay
C18_Witness ==
    /\ last.errors > 0
    /\ this.state = "reconnecting"
    /\ this.reconnectAttempts >= 2
    /\ last.attempts = this.reconnectAttempts - 1
    /\ INITIAL_RETRY_DELAY_MS * Pow(RETRY_MULTIPLIER, last.attempts - 1) >= MAX_RETRY_DELAY_MS
    /\ scheduled = this.reconnectTimer
    /\ scheduled.base = MAX_RETRY_DELAY_MS
    /\ scheduled.jitter = 0

\* the edges the specification allows, with the handler that may take each
AllowedEdge(from, to, step) ==
    \/ /\ to = "connecting"
       /\ from \in {"disconnected", "reconnecting", "fallback"}
       /\ \/ step.op \in {"connect", "resume"}
          \/ step.op = "reconnectTimer" /\ from = "reconnecting"
    \/ /\ to = "connected"
       /\ from = "connecting"
       /\ step.op = "open"
    \/ /\ to \in {"reconnecting", "fallback"}
       /\ from \in {"connecting", "connected"}
       /\ step.errors > 0
    \/ /\ to = "disconnected"
       /\ step.op = "disconnect"

\* C19: every change of state a handler makes, the ones it passes through
\* inside one run included, is along an allowed edge: into connecting from
\* disconnected, reconnecting or fallback by connect() or, from reconnecting, by
\* the reconnect timer; connecting to connected by an open callback; connecting
\* or connected to reconnecting or fallback by the error path; to disconnected
\* by disconnect() alone.
C19_OnlyAllowedTransitions ==
    [][LET passed == <<this.state>> \o ConnectionStates(emitted')
       IN  /\ passed[Len(passed)] = this'.state
           /\ \A i \in 1..(Len(passed) - 1) :
                 AllowedEdge(passed[i], passed[i + 1], last')
           /\ (this'.state = "disconnected" /\ this.state # "disconnected") =>
                 last'.op = "disconnect"
           /\ (this'.state = "connected" /\ this.state # "connected") =>
                 this.state = "connecting"]_vars

\* the reconnect timer took the client from reconnecting to connecting, and
\* the transport could not be constructed: on to reconnecting in the same run
C19_Witness ==
    /\ last.op = "reconnectTimer"
    /\ last.from = "reconnecting"
    /\ ConnectionStates(emitted) = <<"connecting", "reconnecting">>
    /\ last.errors = 1

\* C20: between handlers a reconnect timer is pending only in reconnecting, a
\* connection timer only in connecting, a heartbeat timer only in connecting or
\* connected, and none in disconnected or fallback; no handle was ever
\* overwritten while its timer was pending, so at most one timer of each kind
\* is pending and none is left over from an earlier connection.
C20_TimersMatchState ==
    /\ IsPending(this.reconnectTimer) => this.state = "reconnecting"
    /\ IsPending(this.connectionTimer) => this.state = "connecting"
    /\ IsPending(this.heartbeatTimer) => this.state \in {"connecting", "connected"}
    /\ this.state \in {"disconnected", "fallback"} =>
          /\ ~IsPending(this.reconnectTimer)
          /\ ~IsPending(this.connectionTimer)
          /\ ~IsPending(this.heartbeatTimer)
    /\ ~leakedTimers
    /\ (IsPending(this.connectionTimer) \/ IsPending(this.heartbeatTimer)) =>
          /\ this.eventSource # 0
          /\ Live = {this.eventSource}

\* a message before the open: heartbeat and connection timer both pending in
\* connecting, on a connection made after an earlier one failed
C20_Witness ==
    /\ this.state = "connecting"
    /\ IsPending(this.connectionTimer)
    /\ IsPending(this.heartbeatTimer)
    /\ ~IsPending(this.reconnectTimer)
    /\ this.reconnectAttempts > 0
    /\ last.op = "message"

\* C21 as stated: from the return of disconnect() until the next call of
\* connect() the state is disconnected and the client holds no transport,
\* also when a connect() called earlier was still suspended on the import.
C21_DisconnectedUntilConnect ==
    cancelled =>
        /\ this.state = "disconnected"
        /\ this.eventSource = 0
        /\ Live = {}

\* a due timer's callback can run
DueTimersCanFire ==
    /\ IsDue(this.reconnectTimer) => ENABLED ReconnectTimerFires
    /\ IsDue(this.connectionTimer) => ENABLED ConnectionTimerFires
    /\ (IsDue(this.heartbeatTimer) /\ ~IsDue(this.connectionTimer))
          => ENABLED HeartbeatTimerFires

ExternalCall == last.op \in {"connect", "resume", "disconnect"}

\* C22 as stated: from reconnecting, unless connect() or disconnect() is
\* called, the reconnect timer fires and leaves the client in connecting with
\* a newly constructed transport.
C22_ReconnectingLeadsToNewTransport ==
    (this.state = "reconnecting") ~>
        \/ ExternalCall
        \/ /\ last.op = "reconnectTimer"
           /\ this.state = "connecting"
           /\ last.built = 1

\* C22 amended: from reconnecting, unless connect() or disconnect() is called,
\* the reconnect timer fires and its callback enters connecting; it then
\* either constructs a transport and stays in connecting, or, when the
\* construction throws, runs the error path in the same call and ends in
\* reconnecting (next attempt scheduled) or fallback.  The client is never in
\* reconnecting forever.
C22_ReconnectTimerStartsAttempt ==
    /\ (this.state = "reconnecting") ~>
          \/ ExternalCall
          \/ /\ last.op = "reconnectTimer"
             /\ last.from = "reconnecting"
             /\ ConnectionStates(emitted) # <<>>
             /\ ConnectionStates(emitted)[1] = "connecting"
             /\ \/ this.state = "connecting" /\ last.built = 1 /\ last.errors = 0
                \/ /\ this.state \in {"reconnecting", "fallback"}
                   /\ last.built = 0
                   /\ last.errors = 1
                   /\ this.reconnectAttempts = Min(last.attempts + 1, MAX_RETRIES)
    /\ []<>(this.state # "reconnecting")
    /\ []DueTimersCanFire

\* the reconnect timer fired in reconnecting and a transport was constructed
C22_Witness ==
    /\ last.op = "reconnectTimer"
    /\ last.from = "reconnecting"
    /\ this.state = "connecting"
    /\ last.built = 1
    /\ this.eventSource # 0
    /\ IsPending(this.connectionTimer)

\* C23: while no external call is made and no open succeeds, at most
\* MAX_RETRIES reconnect timer callbacks run; from connecting or reconnecting
\* the client reaches fallback unless an open or an external call comes first;
\* and from fallback no step other than an external call constructs a
\* transport or changes the state.
C23_BoundedRetriesThenFallback ==
    /\ [](retries <= MAX_RETRIES)
    /\ [][(this.state = "fallback" /\ last'.op \notin {"connect", "resume", "disconnect"}) =>
             /\ this'.state = "fallback"
             /\ last'.built = 0
             /\ retries' = retries]_vars
    /\ (this.state \in {"connecting", "reconnecting"}) ~>
          \/ this.state = "fallback"
          \/ ExternalCall
          \/ last.op = "open"

\* fallback entered after the MAX_RETRIES-th automatic attempt timed out
C23_Witness ==
    /\ this.state = "fallback"
    /\ retries = MAX_RETRIES
    /\ last.op = "connectionTimer"
    /\ last.from = "connecting"
    /\ NoTimers

\* C24: in connecting the connection timer is pending; it is started with
\* HEARTBEAT_TIMEOUT_MS when the transport is constructed, loses one tick per
\* tick, and no handler that leaves the client in connecting (a message, a
\* ping, a connect() that returns at once) changes it; when it fires the error
\* path runs with 'Connection timeout' and the client leaves connecting.  So
\* the client is never in connecting forever.
C24_ConnectionTimeoutEndsConnecting ==
    /\ [](this.state = "connecting" =>
             /\ IsPending(this.connectionTimer)
             /\ this.connectionTimer.left <= HEARTBEAT_TIMEOUT_MS)
    /\ [][/\ (last'.built = 1 /\ this'.state = "connecting") =>
                this'.connectionTimer = setTimeout(HEARTBEAT_TIMEOUT_MS, 0)
          /\ (this.state = "connecting" /\ this'.state = "connecting") =>
                this'.connectionTimer.left =
                    IF last'.op = "tick"
                    THEN this.connectionTimer.left - 1
                    ELSE this.connectionTimer.left
          /\ (this.state = "connecting" /\ last'.op \in {"message", "ping"}) =>
                /\ this'.state = "connecting"
                /\ this'.connectionTimer = this.connectionTimer
          /\ (this.state = "connecting" /\ last'.op = "connectionTimer") =>
                /\ this.connectionTimer.left = 0
                /\ emitted'[1] = <<"connection:error", <<"Connection timeout", 0>>>>
                /\ this'.state \in {"reconnecting", "fallback"}
                /\ last'.errors = 1
          /\ (this.state = "connecting" /\ last'.op = "heartbeatTimer") =>
                ~IsDue(this.connectionTimer)]_vars
    /\ (this.state = "connecting") ~> (this.state # "connecting")

\* a message arrived in connecting when the connection timer was already due:
\* the heartbeat timer is re-armed, the connection timer stays due
C24_Witness ==
    /\ last.op = "message"
    /\ last.from = "connecting"
    /\ this.state = "connecting"
    /\ IsDue(this.connectionTimer)
    /\ this.heartbeatTimer = setTimeout(HEARTBEAT_TIMEOUT_MS, 0)

\* C25: between handlers getStatus() reports 0 <= reconnectAttempts <=
\* MAX_RETRIES; in connected: no attempts, no error, connectedAt set; in
\* reconnecting: at least one attempt and an error; in fallback: MAX_RETRIES
\* attempts and an error.
C25_StatusMatchesState ==
    LET status == getStatus(this)
    IN  /\ status.reconnectAttempts \in 0..MAX_RETRIES
        /\ status.state = "connected" =>
              /\ status.reconnectAttempts = 0
              /\ status.error = NoError
              /\ status.connectedAt # NoDate
        /\ status.state = "reconnecting" =>
              /\ status.reconnectAttempts >= 1
              /\ status.error # NoError
        /\ status.state = "fallback" =>
              /\ status.reconnectAttempts = MAX_RETRIES
              /\ status.error # NoError

\* connected again after a failure: the open cleared the error and the counter
C25_Witness ==
    /\ last.op = "open"
    /\ last.from = "connecting"
    /\ last.attempts >= 1
    /\ getStatus(this).state = "connected"
    /\ getStatus(this).error = NoError
    /\ getStatus(this).reconnectAttempts = 0

\* C26: right after an event was received on message, playing, notification
\* or ping, getStatus().lastEventAt is the time of that event (age 0).
C26_LastEventAtIsReceiveTime ==
    last.op \in {"message", "ping"} => getStatus(this).lastEventAt = 0

\* C27: a transport the client no longer holds has no callback attached and is
\* closed, so none of its callbacks can run; a transport callback (open, error,
\* message, ping) runs only for the live transport the client holds, and
\* session events are emitted only by a message of that transport.
C27_TornDownTransportIsSilent ==
    /\ [](\A i \in 1..MaxTransports :
             i # this.eventSource => IsFree(transports[i]))
    /\ [](this.eventSource = 0 =>
             /\ ~ENABLED OnOpen
             /\ ~ENABLED OnError
             /\ ~ENABLED OnMessage
             /\ ~ENABLED OnPing)
    /\ [][/\ last'.op \in {"open", "error", "message", "ping"} =>
                /\ this.eventSource # 0
                /\ transports[this.eventSource].live
          /\ SessionEvents(emitted') # <<>> =>
                /\ last'.op = "message"
                /\ this.eventSource # 0
                /\ transports[this.eventSource].live
                /\ this'.eventSource = this.eventSource]_vars

\* the error path tore down a transport that had been delivering events
C27_Witness ==
    /\ last.op \in {"error", "heartbeatTimer"}
    /\ last.from = "connected"
    /\ this.lastEventTime # NoDate
    /\ this.eventSource = 0
    /\ Attached = {}
    /\ Live = {}

\* C28: when a handler during which a subscriber called disconnect(), from
\* inside a connection:state or connection:error notification, has finished,
\* the state is disconnected, no transport is live or has a callback
\* attached, and no timer is pending.
C28_ReentrantDisconnectIsEffective ==
    last.reentered =>
        /\ this.state = "disconnected"
        /\ this.eventSource = 0
        /\ Live = {}
        /\ Attached = {}
        /\ ~IsPending(this.reconnectTimer)
        /\ ~IsPending(this.heartbeatTimer)
        /\ ~IsPending(this.connectionTimer)

\* C29: getStatus() read by a subscriber while a connection:state event is
\* delivered is consistent with the state the event carries: on connected,
\* connectedAt is set, the counter is 0 and the error is null; on
\* reconnecting, the counter counts the attempt being scheduled; on
\* disconnected, connectedAt is null.
C29_StatusConsistentAtNotification ==
    \A i \in 1..Len(observed) :
        LET status == observed[i]
            state == ConnectionStates(emitted)[i]
        IN  /\ status.state = state
            /\ state = "connected" =>
                  /\ status.connectedAt # NoDate
                  /\ status.reconnectAttempts = 0
                  /\ status.error = NoError
            /\ state = "reconnecting" =>
                  status.reconnectAttempts = last.attempts + 1
            /\ state = "disconnected" =>
                  status.connectedAt = NoDate

\* C30: disconnect() leaves the attempt counter and the last error as they
\* are, and only an open lowers the counter (to 0).  So a client revived from
\* fallback by disconnect() and connect() starts with the counter at
\* MAX_RETRIES, and a failure with the counter at MAX_RETRIES ends in fallback
\* with no reconnect timer pending.
C30_DisconnectKeepsRetryBudget ==
    [][/\ last'.op = "disconnect" =>
             /\ this'.reconnectAttempts = this.reconnectAttempts
             /\ this'.lastError = this.lastError
       /\ this'.reconnectAttempts < this.reconnectAttempts =>
             /\ last'.op = "open"
             /\ this'.state = "connected"
             /\ this'.reconnectAttempts = 0
       /\ (this.reconnectAttempts = MAX_RETRIES /\ last'.errors > 0) =>
             /\ this'.state = "fallback"
             /\ this'.reconnectAttempts = MAX_RETRIES
             /\ ~IsPending(this'.reconnectTimer)
       /\ (this.state = "fallback" /\ last'.op \in {"connect", "resume"}) =>
             \/ this'.state = "fallback"
             \/ /\ this'.state = "connecting"
                /\ this'.reconnectAttempts = MAX_RETRIES]_vars

\* disconnect() called in fallback: the counter is still MAX_RETRIES and the
\* error is still there
C30_Witness ==
    /\ last.op = "disconnect"
    /\ last.from = "fallback"
    /\ this.state = "disconnected"
    /\ this.reconnectAttempts = MAX_RETRIES
    /\ this.lastError # NoError

====
